---- MODULE Spec2Model ----
(***************************************************************************)
(* A model of the in-memory virtual file system: the B-tree directory      *)
(* index (fs/index/btree.py), the inode table (fs/inode_table.py) and the  *)
(* path-resolving facade (fs/vfs.py).                                      *)
(*                                                                         *)
(* Strings are sequences of code points, byte strings are sequences of     *)
(* byte values, Python list indices are kept 0-based in the operators'     *)
(* arguments and results (TLA+ sequences are 1-based, hence the +1 at      *)
(* each access).                                                           *)
(***************************************************************************)
EXTENDS Integers, Sequences, FiniteSets, TLC

VARIABLES
    table,      \* InodeTable._table : identity -> inode (a sequence, id + 1)
    next_id,    \* InodeTable._next_id
    last,       \* history: the last facade call that changed the namespace
    loaded,     \* bulk-load workload: names touched by the loader so far
    steps,      \* bulk-load workload: facade calls made after the load
    index,      \* a stand-alone BTree (index workload)
    count,      \* index workload: inserts made so far
    ever,       \* index workload: keys ever passed to insert
    live,       \* index workload: the (key, value) pairs inserted, not deleted
    promoted,   \* index workload: keys promoted as a pivot by _split_child
    distinct,   \* index workload: no key was passed to insert twice
    dels,       \* index workload: successful deletes made so far
    clock,      \* datetime.now(timezone.utc), in ticks
    disk        \* the snapshot file the CLI invocations share

vfsVars == <<table, next_id, last>>
loadVars == <<loaded, steps>>
indexVars == <<index, count, ever, live, promoted, distinct, dels>>
vars == <<table, next_id, last, loaded, steps, index, count, ever, live,
          promoted, distinct, dels, clock, disk>>

-----------------------------------------------------------------------------
(* Bounds of the model *)

\* BTree(order = 64) scaled down: 5 is the least order for which, as for 64,
\* the left half of a split (mid + 1 keys) is no longer full.
DefaultOrder == 5

\* facade workload: the root-level names are Name(1) .. Name(NumNames)
NumNames == 2

\* facade workload: no call is made that would allocate beyond this identity
MaxIds == 4

\* bulk-load workload: the loader touches /big/Name(1) .. /big/Name(LoadCount)
LoadCount == 9

\* bulk-load workload: facade calls made after the load
MaxSteps == 1

\* index workload: the keys are Name(1) .. Name(NumKeys)
NumKeys == 9

\* index workload: at most this many inserts
MaxInserts == 9

\* index workload: at most this many deletes
MaxDeletes == 1

\* metadata workload: the clock stops at this tick
MaxClock == 2

\* order workload: BTree(order) for every order from 3 to this one
MaxOrder == 5

\* order workload: at most this many inserts, of this many keys
MaxRawInserts == 7
NumRawKeys == 5

-----------------------------------------------------------------------------
(* Python primitives *)

Min(a, b) == IF a < b THEN a ELSE b

\* str.__lt__ : lexicographic order on code points
RECURSIVE StrLess(_, _)
StrLess(a, b) ==
    IF a = <<>> THEN b # <<>>
    ELSE IF b = <<>> THEN FALSE
    ELSE IF a[1] # b[1] THEN a[1] < b[1]
    ELSE StrLess(Tail(a), Tail(b))

\* list.insert(i, x)  (i >= 0; an index past the end appends)
ListInsert(s, i, x) ==
    LET k == Min(i, Len(s))
    IN  SubSeq(s, 1, k) \o <<x>> \o SubSeq(s, k + 1, Len(s))

\* del list[i]
ListDelete(s, i) == SubSeq(s, 1, i) \o SubSeq(s, i + 2, Len(s))

\* list[:n]
ListPrefix(s, n) == SubSeq(s, 1, Min(n, Len(s)))

\* list[n:]
ListSuffix(s, n) == SubSeq(s, n + 1, Len(s))

\* list.index(x), for an x that occurs in the list
ListIndex(s, x) == (CHOOSE i \in 1..Len(s) :
                        s[i] = x /\ \A j \in 1..(i - 1) : s[j] # x) - 1

\* bisect.bisect_left(a, x): the binary search itself
RECURSIVE BisectLoop(_, _, _, _)
BisectLoop(a, x, lo, hi) ==
    IF lo < hi
    THEN LET mid == (lo + hi) \div 2
         IN  IF StrLess(a[mid + 1], x)
             THEN BisectLoop(a, x, mid + 1, hi)
             ELSE BisectLoop(a, x, lo, mid)
    ELSE lo

bisect_left(a, x) == BisectLoop(a, x, 0, Len(a))

-----------------------------------------------------------------------------
(* fs/index/btree.py *)

\* _Node(leaf)
Node(leaf) == [leaf |-> leaf, keys |-> <<>>, vals |-> <<>>, kids |-> <<>>]

\* BTree(order)
BTree(order) == [root |-> Node(TRUE), order |-> order]

\* BTree._search: ("found", path of child indices, idx, node.vals[idx]),
\* ("none") for (None, -1), or the IndexError of node.kids[i].
RECURSIVE Search(_, _)
Search(node, key) ==
    LET i == bisect_left(node.keys, key)
        hit == i < Len(node.keys) /\ node.keys[i + 1] = key
    IN  IF node.leaf
        THEN IF hit
             THEN [kind |-> "found", path |-> <<>>, idx |-> i]
             ELSE [kind |-> "none"]
        ELSE LET j == IF hit THEN i + 1 ELSE i
             IN  IF j >= Len(node.kids)
                 THEN [kind |-> "IndexError"]
                 ELSE LET r == Search(node.kids[j + 1], key)
                      IN  IF r.kind = "found"
                          THEN [r EXCEPT !.path = <<j>> \o @]
                          ELSE r

\* the node a path of child indices leads to
RECURSIVE NodeAt(_, _)
NodeAt(node, path) ==
    IF path = <<>> THEN node ELSE NodeAt(node.kids[path[1] + 1], Tail(path))

\* BTree.get: [res |-> "ok", val |-> v], or the exception raised
Get(t, key) ==
    LET r == Search(t.root, key)
    IN  IF r.kind = "none" THEN [res |-> "KeyError"]
        ELSE IF r.kind = "IndexError" THEN [res |-> "IndexError"]
        ELSE [res |-> "ok", val |-> NodeAt(t.root, r.path).vals[r.idx + 1]]

\* del node.keys[idx]; del node.vals[idx], in the leaf the path leads to
RECURSIVE DeleteAt(_, _, _)
DeleteAt(node, path, idx) ==
    IF path = <<>>
    THEN [node EXCEPT !.keys = ListDelete(@, idx), !.vals = ListDelete(@, idx)]
    ELSE [node EXCEPT !.kids[path[1] + 1] = DeleteAt(@, Tail(path), idx)]

\* BTree.delete: [res, t]
Delete(t, key) ==
    LET r == Search(t.root, key)
    IN  IF r.kind = "none" THEN [res |-> "KeyError", t |-> t]
        ELSE IF r.kind = "IndexError" THEN [res |-> "IndexError", t |-> t]
        ELSE [res |-> "ok", t |-> [t EXCEPT !.root = DeleteAt(@, r.path, r.idx)]]

\* BTree._iter_node
RECURSIVE IterNode(_), IterKids(_, _)
IterNode(node) == IF node.leaf THEN node.keys ELSE IterKids(node, 0)
IterKids(node, i) ==
    IF i >= Len(node.kids) THEN <<>>
    ELSE IterNode(node.kids[i + 1])
         \o (IF i < Len(node.keys) THEN <<node.keys[i + 1]>> ELSE <<>>)
         \o IterKids(node, i + 1)

\* BTree.iter
Iter(t) == IterNode(t.root)

\* the split point of _split_child
SplitMid(order) == order \div 2

\* what the left node keeps of its keys (and values or children)
LeftKeep(order) == SplitMid(order) + 1

\* _split_child with the right node's values cut one place early
\* (z.vals = y.vals[mid:])
SplitChildValsEarly(order, parent, i) ==
    LET y == parent.kids[i + 1]
        mid == SplitMid(order)
        z == [leaf |-> y.leaf,
              keys |-> ListSuffix(y.keys, mid + 1),
              vals |-> IF y.leaf THEN ListSuffix(y.vals, mid) ELSE <<>>,
              kids |-> IF y.leaf THEN <<>> ELSE ListSuffix(y.kids, mid + 1)]
        y2 == [leaf |-> y.leaf,
               keys |-> ListPrefix(y.keys, LeftKeep(order)),
               vals |-> IF y.leaf THEN ListPrefix(y.vals, mid + 1) ELSE y.vals,
               kids |-> IF y.leaf THEN y.kids ELSE ListPrefix(y.kids, mid + 1)]
    IN  [parent EXCEPT
            !.keys = ListInsert(@, i, y.keys[mid + 1]),
            !.kids = ListInsert([@ EXCEPT ![i + 1] = y2], i + 1, z)]

\* BTree._split_child(parent, i): the parent after the split of its child i,
\* a node of at least mid + 1 keys
SplitChild(order, parent, i) ==
    LET y == parent.kids[i + 1]
        mid == SplitMid(order)
        z == [leaf |-> y.leaf,
              keys |-> ListSuffix(y.keys, mid + 1),
              vals |-> IF y.leaf THEN ListSuffix(y.vals, mid + 1) ELSE <<>>,
              kids |-> IF y.leaf THEN <<>> ELSE ListSuffix(y.kids, mid + 1)]
        y2 == [leaf |-> y.leaf,
               keys |-> ListPrefix(y.keys, LeftKeep(order)),
               vals |-> IF y.leaf THEN ListPrefix(y.vals, mid + 1) ELSE y.vals,
               kids |-> IF y.leaf THEN y.kids ELSE ListPrefix(y.kids, mid + 1)]
    IN  [parent EXCEPT
            !.keys = ListInsert(@, i, y.keys[mid + 1]),
            !.kids = ListInsert([@ EXCEPT ![i + 1] = y2], i + 1, z)]

\* the pivot _split_child promotes
SplitPivot(order, parent, i) == parent.kids[i + 1].keys[SplitMid(order) + 1]

\* the while loop of _insert_non_full: i -= 1 while i >= 0 and key < keys[i]
RECURSIVE ScanDown(_, _, _)
ScanDown(keys, key, i) ==
    IF i >= 0 /\ StrLess(key, keys[i + 1]) THEN ScanDown(keys, key, i - 1) ELSE i

\* whether _insert_non_full splits the full child it is about to descend into
ChildFull(order, child) == Len(child.keys) = order - 1

\* GoesRight with the comparison left out: the descent stays left
GoesRightNever(key, pivot) == FALSE

\* which side of a fresh pivot _insert_non_full descends into
GoesRight(key, pivot) == StrLess(pivot, key)

\* BTree._insert_non_full: [node, err, piv]: the node as the call leaves it,
\* whether it raised IndexError (node.kids[i]), the pivots promoted on the way
RECURSIVE InsertNonFull(_, _, _, _)
InsertNonFull(order, node, key, val) ==
    IF node.leaf
    THEN LET keys2 == ListInsert(node.keys, bisect_left(node.keys, key), key)
         IN  [node |-> [node EXCEPT !.keys = keys2,
                            !.vals = ListInsert(@, ListIndex(keys2, key), val)],
              err |-> FALSE, piv |-> {}]
    ELSE LET i == ScanDown(node.keys, key, Len(node.keys) - 1) + 1
         IN  IF i >= Len(node.kids)
             THEN [node |-> node, err |-> TRUE, piv |-> {}]
             ELSE LET full == ChildFull(order, node.kids[i + 1])
                      n1 == IF full THEN SplitChild(order, node, i) ELSE node
                      p1 == IF full THEN {SplitPivot(order, node, i)} ELSE {}
                      i1 == IF full /\ GoesRight(key, n1.keys[i + 1])
                            THEN i + 1 ELSE i
                  IN  IF i1 >= Len(n1.kids)
                      THEN [node |-> n1, err |-> TRUE, piv |-> p1]
                      ELSE LET r == InsertNonFull(order, n1.kids[i1 + 1], key, val)
                           IN  [node |-> [n1 EXCEPT !.kids[i1 + 1] = r.node],
                                err |-> r.err, piv |-> p1 \cup r.piv]

\* RootFull for a root that holds a pivot to promote, full or not
RootFullEarly(t) == Len(t.root.keys) >= LeftKeep(t.order)

\* whether BTree.insert splits the root first
RootFull(t) == Len(t.root.keys) = t.order - 1

\* BTree.insert: [t, res, piv]
Insert(t, key, val) ==
    LET full == RootFull(t)
        s == [Node(FALSE) EXCEPT !.kids = <<t.root>>]
        root1 == IF full THEN SplitChild(t.order, s, 0) ELSE t.root
        p1 == IF full THEN {SplitPivot(t.order, s, 0)} ELSE {}
        r == InsertNonFull(t.order, root1, key, val)
    IN  [t |-> [t EXCEPT !.root = r.node],
         res |-> IF r.err THEN "IndexError" ELSE "ok",
         piv |-> p1 \cup r.piv]

-----------------------------------------------------------------------------
(* fs/node.py: Directory and File.  A Directory keeps its children in a   *)
(* BTree of the default order (fs/vfs.py: "Directory - now backed by an   *)
(* in-memory B-tree index") and forwards its four methods to it.          *)

\* Meta's default_factory: the time at which the inode is constructed
Now == clock

\* Directory(id_)
Directory(id) == [id |-> id, is_dir |-> TRUE, size |-> 0,
                  created |-> Now, modified |-> Now,
                  children |-> BTree(DefaultOrder)]

\* File(id_, content)
File(id, content) == [id |-> id, is_dir |-> FALSE, size |-> Len(content),
                      created |-> Now, modified |-> Now,
                      content |-> content]

\* Directory.get_child(name): [res, val]
DirGetChild(dir, name) == Get(dir.children, name)

\* Directory.add_child(name, inode_id): [dir, res]
DirAddChild(dir, name, inode_id) ==
    LET r == Insert(dir.children, name, inode_id)
    IN  [dir |-> [dir EXCEPT !.children = r.t], res |-> r.res]

\* Directory.del_child(name): [dir, res]
DirDelChild(dir, name) ==
    LET r == Delete(dir.children, name)
    IN  [dir |-> [dir EXCEPT !.children = r.t], res |-> r.res]

\* Directory.iter_names()
DirIterNames(dir) == Iter(dir.children)

-----------------------------------------------------------------------------
(* fs/inode_table.py.  A namespace is [table, next_id]. *)

\* allocate without self._next_id += 1
AllocateNoIncrement(s, inode) ==
    [s |-> [table |-> [i \in 0..s.next_id |->
                          IF i = s.next_id
                          THEN [inode EXCEPT !.id = s.next_id]
                          ELSE s.table[i]],
            next_id |-> s.next_id],
     id |-> s.next_id]

\* InodeTable.allocate(inode): [s, id]
Allocate(s, inode) ==
    [s |-> [table |-> [i \in 0..s.next_id |->
                          IF i = s.next_id
                          THEN [inode EXCEPT !.id = s.next_id]
                          ELSE s.table[i]],
            next_id |-> s.next_id + 1],
     id |-> s.next_id]

\* InodeTable.get(inode_id), for an identity of the table
TableGet(s, inode_id) == s.table[inode_id]

\* VFS.__init__: the root directory is the first allocation
NewVFS == Allocate([table |-> <<>>, next_id |-> 0], Directory(-1)).s

\* VFS.root_id
RootId == 0

-----------------------------------------------------------------------------
(* fs/persist.py.  The snapshot file is absent or holds the pickled VFS:  *)
(* its inode table and its root identity.                                  *)

NoFile == [exists |-> FALSE]

\* persist.save(vfs, path): pickle.dump(vfs, fh)
PersistSave(s) ==
    [exists |-> TRUE, table |-> s.table, next_id |-> s.next_id,
     root_id |-> RootId]

\* persist.load(path): a fresh VFS if the file does not exist
PersistLoad(file) ==
    IF ~file.exists THEN NewVFS
    ELSE [table |-> file.table, next_id |-> file.next_id]

-----------------------------------------------------------------------------
(* pathlib.PurePosixPath *)

Slash == 47
Dot == 46

\* path.split("/")
RECURSIVE SplitSlash(_, _)
SplitSlash(path, cur) ==
    IF path = <<>> THEN <<cur>>
    ELSE IF path[1] = Slash THEN <<cur>> \o SplitSlash(Tail(path), <<>>)
    ELSE SplitSlash(Tail(path), Append(cur, path[1]))

\* PurePosixPath(path).is_absolute()
IsAbsolute(path) == path # <<>> /\ path[1] = Slash

\* PurePosixPath(path).parts without the root: empty and "." components
\* are dropped, ".." is kept
Parts(path) ==
    SelectSeq(SplitSlash(path, <<>>), LAMBDA c : c # <<>> /\ c # <<Dot>>)

\* str.encode(): UTF-8, for code points below 2048
RECURSIVE Utf8(_)
Utf8(str) ==
    IF str = <<>> THEN <<>>
    ELSE (IF str[1] < 128 THEN <<str[1]>>
          ELSE <<192 + (str[1] \div 64), 128 + (str[1] % 64)>>)
         \o Utf8(Tail(str))

\* the argument of write: bytes | str
Bytes(b) == [str |-> FALSE, v |-> b]
Str(t) == [str |-> TRUE, v |-> t]

\* if isinstance(data, str): data = data.encode()
ToBytes(data) == IF data.str THEN Utf8(data.v) ELSE data.v

-----------------------------------------------------------------------------
(* fs/vfs.py.  Every operation yields [s, res, out]: the namespace as the  *)
(* call leaves it, "ok" or the exception class it raises, and the value    *)
(* returned.  An operation is a chain of operators, one per step of the    *)
(* method, each taking what the steps before it have computed.             *)

Raise(s, exc) == [s |-> s, res |-> exc, out |-> <<>>]
Return(s, v) == [s |-> s, res |-> "ok", out |-> v]

\* the namespace with inode d stored back under its identity
Store(s, d) == [s EXCEPT !.table[d.id] = d]

\* _split_path leaves its loop: [s, res, id]
WalkStop(s, res, cur_id) == [s |-> s, res |-> res, id |-> cur_id]

\* the loop of _split_path over parts[:-1]: [s, res, id]
RECURSIVE Walk(_, _, _), WalkIn(_, _, _, _), WalkGot(_, _, _, _, _)
RECURSIVE WalkAutoCreate(_, _, _, _), WalkAdded(_, _, _, _)
Walk(s, cur_id, segs) ==
    IF segs = <<>> THEN WalkStop(s, "ok", cur_id)
    ELSE WalkIn(s, cur_id, segs, TableGet(s, cur_id))

\* if not isinstance(cur_dir, Directory): raise NotDirectory(seg)
WalkIn(s, cur_id, segs, cur_dir) ==
    IF ~cur_dir.is_dir THEN WalkStop(s, "NotDirectory", cur_id)
    ELSE WalkGot(s, cur_id, segs, cur_dir, DirGetChild(cur_dir, segs[1]))

\* WalkGot without the auto-create: an absent component is an error
WalkGotNoCreate(s, cur_id, segs, cur_dir, g) ==
    IF g.res = "ok" THEN Walk(s, g.val, Tail(segs))
    ELSE IF g.res = "KeyError" THEN WalkStop(s, "FileNotFound", cur_id)
    ELSE WalkStop(s, g.res, cur_id)

\* try: cur_id = cur_dir.get_child(seg)  except KeyError: auto-create
WalkGot(s, cur_id, segs, cur_dir, g) ==
    IF g.res = "ok" THEN Walk(s, g.val, Tail(segs))
    ELSE IF g.res = "KeyError"
    THEN WalkAutoCreate(cur_id, segs, cur_dir, Allocate(s, Directory(-1)))
    ELSE WalkStop(s, g.res, cur_id)

\* WalkAutoCreate adding the directory walked instead of the new one
WalkAutoCreateSelf(cur_id, segs, cur_dir, a) ==
    WalkAdded(cur_id, segs, a, DirAddChild(cur_dir, segs[1], cur_id))

\* new_id = self.table.allocate(Directory(id_=-1))
WalkAutoCreate(cur_id, segs, cur_dir, a) ==
    WalkAdded(cur_id, segs, a, DirAddChild(cur_dir, segs[1], a.id))

\* WalkAdded with the new directory left out of cur_dir's index
WalkAddedUnlinked(cur_id, segs, a, ins) ==
    IF ins.res = "ok"
    THEN Walk(a.s, a.id, Tail(segs))
    ELSE WalkStop(a.s, ins.res, cur_id)

\* cur_dir.add_child(seg, new_id); cur_id = new_id
WalkAdded(cur_id, segs, a, ins) ==
    IF ins.res = "ok"
    THEN Walk(Store(a.s, ins.dir), a.id, Tail(segs))
    ELSE WalkStop(Store(a.s, ins.dir), ins.res, cur_id)

\* return cur_id, parts[-1] if parts else ""
SplitPathWalked(w, parts) ==
    [s |-> w.s, res |-> w.res, id |-> w.id,
     name |-> IF parts = <<>> THEN <<>> ELSE parts[Len(parts)]]

\* parts = p.parts[1:]; for seg in parts[:-1]: ...
SplitPathParts(s, parts) ==
    SplitPathWalked(Walk(s, RootId, ListPrefix(parts, Len(parts) - 1)), parts)

\* SplitPath without if not p.is_absolute(): raise FSException(...)
SplitPathUnchecked(s, path) == SplitPathParts(s, Parts(path))

\* VFS._split_path: [s, res, id, name]
SplitPath(s, path) ==
    IF ~IsAbsolute(path)
    THEN [s |-> s, res |-> "FSException", id |-> RootId, name |-> <<>>]
    ELSE SplitPathParts(s, Parts(path))

\* parent.add_child(name, new_id)
CreateAdded(a, ins) ==
    IF ins.res = "ok" THEN Return(Store(a.s, ins.dir), <<>>)
    ELSE Raise(Store(a.s, ins.dir), ins.res)

\* CreateAllocated without parent.add_child(name, new_id)
CreateAllocatedNoAdd(parent, name, a) == Return(a.s, <<>>)

\* new_id = self.table.allocate(inode)
CreateAllocated(parent, name, a) ==
    CreateAdded(a, DirAddChild(parent, name, a.id))

\* the except KeyError branch of mkdir, touch and write: allocate the inode
\* and add it to the parent
Create(s, parent, name, inode) ==
    CreateAllocated(parent, name, Allocate(s, inode))

\* parent.get_child(name): [s, res, parent, name, g]
LookupGot(sp, parent, g) ==
    [s |-> sp.s, res |-> g.res, parent |-> parent, name |-> sp.name, g |-> g]

\* parent = self._assert_dir(parent_id, path)
LookupIn(sp, parent) ==
    IF ~parent.is_dir THEN [s |-> sp.s, res |-> "NotDirectory"]
    ELSE LookupGot(sp, parent, DirGetChild(parent, sp.name))

\* parent_id, name = self._split_path(path)
LookupAt(sp) ==
    IF sp.res # "ok" THEN [s |-> sp.s, res |-> sp.res]
    ELSE LookupIn(sp, TableGet(sp.s, sp.id))

\* the first three statements of mkdir, touch, write, read and rm:
\* res is "ok" (g.val is the child), "KeyError", or what was raised before
Lookup(s, path) == LookupAt(SplitPath(s, path))

\* MkNodeGot without raise FileExists(name): an existing child is created
\* again
MkNodeGotNoRaise(l, inode) ==
    IF l.res \in {"ok", "KeyError"} THEN Create(l.s, l.parent, l.name, inode)
    ELSE Raise(l.s, l.res)

\* try: parent.get_child(name); raise FileExists(name)  except KeyError: ...
MkNodeGot(l, inode) ==
    IF l.res = "ok" THEN Raise(l.s, "FileExists")
    ELSE IF l.res = "KeyError" THEN Create(l.s, l.parent, l.name, inode)
    ELSE Raise(l.s, l.res)

\* mkdir and touch differ in the inode they allocate
MkNode(s, path, inode) == MkNodeGot(Lookup(s, path), inode)

\* VFS.mkdir
DoMkdir(s, path) == MkNode(s, path, Directory(-1))

\* VFS.touch
DoTouch(s, path) == MkNode(s, path, File(-1, <<>>))

\* node.content[:] = data; node.meta.size = len(data)
Overwrite(node, bytes) == [node EXCEPT !.content = bytes, !.size = Len(bytes)]

\* WriteFound that takes the File it found for absent and creates another
WriteFoundCreates(l, node, bytes) ==
    IF node.is_dir THEN Raise(l.s, "NotDirectory")
    ELSE Create(l.s, l.parent, l.name, File(-1, bytes))

\* node = self.table.get(inode_id); if not isinstance(node, File): raise ...
WriteFound(l, node, bytes) ==
    IF node.is_dir THEN Raise(l.s, "NotDirectory")
    ELSE Return(Store(l.s, Overwrite(node, bytes)), <<>>)

\* try: inode_id = parent.get_child(name) ...  except KeyError: ...
WriteGot(l, bytes) ==
    IF l.res = "ok" THEN WriteFound(l, TableGet(l.s, l.g.val), bytes)
    ELSE IF l.res = "KeyError"
    THEN Create(l.s, l.parent, l.name, File(-1, bytes))
    ELSE Raise(l.s, l.res)

\* VFS.write
DoWrite(s, path, data) == WriteGot(Lookup(s, path), ToBytes(data))

\* ReadFound leaving the File it has read empty
ReadFoundDrains(l, node) ==
    IF node.is_dir THEN Raise(l.s, "NotDirectory")
    ELSE Return(Store(l.s, Overwrite(node, <<>>)), node.content)

\* node = self.table.get(inode_id); if not isinstance(node, File): raise ...
ReadFound(l, node) ==
    IF node.is_dir THEN Raise(l.s, "NotDirectory")
    ELSE Return(l.s, node.content)

\* ReadGot without the except KeyError clause (as in ls)
ReadGotRaw(l) ==
    IF l.res = "ok" THEN ReadFound(l, TableGet(l.s, l.g.val))
    ELSE Raise(l.s, l.res)

\* try: inode_id = parent.get_child(name)  except KeyError: FileNotFound
ReadGot(l) ==
    IF l.res = "ok" THEN ReadFound(l, TableGet(l.s, l.g.val))
    ELSE IF l.res = "KeyError" THEN Raise(l.s, "FileNotFound")
    ELSE Raise(l.s, l.res)

\* VFS.read
DoRead(s, path) == ReadGot(Lookup(s, path))

\* dir_node = self._assert_dir(..., path); list(dir_node.iter_names())
LsFound(sp, node) ==
    IF ~node.is_dir THEN Raise(sp.s, "NotDirectory")
    ELSE Return(sp.s, DirIterNames(node))

\* .get_child(name): a KeyError is not caught
LsGot(sp, g) ==
    IF g.res # "ok" THEN Raise(sp.s, g.res)
    ELSE LsFound(sp, TableGet(sp.s, g.val))

\* self.table.get(parent_id).get_child: a File has no get_child
LsIn(sp, parent) ==
    IF ~parent.is_dir THEN Raise(sp.s, "AttributeError")
    ELSE LsGot(sp, DirGetChild(parent, sp.name))

\* parent_id, name = self._split_path(path)
LsAt(sp) ==
    IF sp.res # "ok" THEN Raise(sp.s, sp.res)
    ELSE LsIn(sp, TableGet(sp.s, sp.id))

\* VFS.ls
DoLs(s, path) ==
    IF path = <<Slash>>
    THEN Return(s, DirIterNames(TableGet(s, RootId)))
    ELSE LsAt(SplitPath(s, path))

\* RmDeleted that drops the parent it has deleted the name from
RmDeletedNotStored(l, d) ==
    IF d.res = "ok" THEN Return(l.s, <<>>)
    ELSE Raise(l.s, d.res)

\* parent.del_child(name)
RmDeleted(l, d) ==
    IF d.res = "ok" THEN Return(Store(l.s, d.dir), <<>>)
    ELSE Raise(l.s, d.res)

\* try: inode_id = parent.get_child(name)  except KeyError: FileNotFound
RmGot(l) ==
    IF l.res = "ok" THEN RmDeleted(l, DirDelChild(l.parent, l.name))
    ELSE IF l.res = "KeyError" THEN Raise(l.s, "FileNotFound")
    ELSE Raise(l.s, l.res)

\* VFS.rm
DoRm(s, path) == RmGot(Lookup(s, path))

-----------------------------------------------------------------------------
(* The facade's operations as actions *)

\* the namespace of the current state
Cur == [table |-> table, next_id |-> next_id]

NoData == Bytes(<<>>)

\* the call's effect on the namespace; a call that changes the namespace
\* (whether it returns or raises) is recorded in the history
Effect(op, path, data, r) ==
    /\ table' = r.s.table
    /\ next_id' = r.s.next_id
    /\ last' = IF r.s = Cur THEN last
               ELSE [op |-> op, path |-> path, data |-> data, res |-> r.res]
    /\ UNCHANGED <<indexVars, clock, disk>>

Mkdir(path) == Effect("mkdir", path, NoData, DoMkdir(Cur, path))

Touch(path) == Effect("touch", path, NoData, DoTouch(Cur, path))

Write(path, data) == Effect("write", path, data, DoWrite(Cur, path, data))

Read(path) == Effect("read", path, NoData, DoRead(Cur, path))

Ls(path) == Effect("ls", path, NoData, DoLs(Cur, path))

Rm(path) == Effect("rm", path, NoData, DoRm(Cur, path))

\* vfs = VFS()
VfsInit ==
    /\ clock = 0
    /\ disk = NoFile
    /\ table = NewVFS.table
    /\ next_id = NewVFS.next_id
    /\ last = [op |-> "init", path |-> <<>>, data |-> NoData, res |-> "ok"]

\* the variables of the workloads that are not running
LoadIdle == loaded = [dir |-> "asc", n |-> 0] /\ steps = 0

IndexIdle ==
    /\ index = BTree(DefaultOrder)
    /\ count = 0
    /\ ever = {}
    /\ live = {}
    /\ promoted = {}
    /\ distinct = TRUE
    /\ dels = 0

-----------------------------------------------------------------------------
(* Names: "a" < "ab" < "c" < "d" < ... *)

Name(n) == IF n = 2 THEN <<97, 98>> ELSE <<96 + n>>

-----------------------------------------------------------------------------
(* Index workload: one BTree of the default order, driven directly *)

Keys == {Name(n) : n \in 1..NumKeys}

IndexInit ==
    /\ index = BTree(DefaultOrder)
    /\ count = 0
    /\ ever = {}
    /\ live = {}
    /\ promoted = {}
    /\ distinct = TRUE
    /\ dels = 0
    /\ VfsInit
    /\ LoadIdle

\* tree.insert(Name(n), n), called as Directory.add_child is: for a key
\* whose lookup has just failed
IdxInsert(n) ==
    /\ count < MaxInserts
    /\ Get(index, Name(n)).res # "ok"
    /\ LET r == Insert(index, Name(n), n)
       IN  /\ index' = r.t
           /\ promoted' = promoted \cup r.piv
           /\ live' = IF r.res = "ok" THEN live \cup {<<Name(n), n>>} ELSE live
    /\ count' = count + 1
    /\ ever' = ever \cup {Name(n)}
    /\ distinct' = (distinct /\ Name(n) \notin ever)
    /\ UNCHANGED <<dels, vfsVars, loadVars, clock, disk>>

\* tree.get(key): a query, the tree is left as it is
IdxGet(key) ==
    /\ Get(index, key).res \in {"ok", "KeyError", "IndexError"}
    /\ UNCHANGED vars

\* tree.delete(key)
IdxDelete(key) ==
    /\ dels < MaxDeletes
    /\ LET g == Get(index, key)
           r == Delete(index, key)
       IN  /\ index' = r.t
           /\ live' = IF r.res = "ok" THEN live \ {<<key, g.val>>} ELSE live
           /\ dels' = IF r.res = "ok" THEN dels + 1 ELSE dels
    /\ UNCHANGED <<count, ever, promoted, distinct, vfsVars, loadVars, clock,
                   disk>>

\* list(tree.iter()): a query, the tree is left as it is
IdxIter ==
    /\ Len(Iter(index)) >= 0
    /\ UNCHANGED vars

IndexNext ==
    \/ \E n \in 1..NumKeys : IdxInsert(n)
    \/ \E key \in Keys : IdxGet(key)
    \/ \E key \in Keys : IdxDelete(key)
    \/ IdxIter

SpecIndex == IndexInit /\ [][IndexNext]_vars

-----------------------------------------------------------------------------
(* Facade workload: any calls, on a small set of paths *)

\* "/" + a + "/" + b + ...
RECURSIVE Abs(_)
Abs(names) ==
    IF names = <<>> THEN <<>> ELSE <<Slash>> \o names[1] \o Abs(Tail(names))

Paths ==
    {Abs(<<Name(n)>>) : n \in 1..NumNames}
    \cup {<<Slash>>,                                  \* "/"
          Abs(<<Name(1), Name(2)>>),                  \* "/a/ab"
          Abs(<<Name(1), Name(2), Name(3)>>),         \* "/a/ab/c"
          <<Slash, Dot>> \o Abs(<<Name(1)>>) \o <<Slash>>,   \* "/./a/"
          Name(1)}                                    \* "a"

\* the empty byte string and one that is not UTF-8
Datas == {Bytes(<<>>), Bytes(<<255>>)}

\* the workload's bound on the identities allocated
Bounded == next_id' <= MaxIds /\ UNCHANGED loadVars

Init ==
    /\ VfsInit
    /\ LoadIdle
    /\ IndexIdle

Next ==
    \/ \E path \in Paths : Mkdir(path) /\ Bounded
    \/ \E path \in Paths : Touch(path) /\ Bounded
    \/ \E path \in Paths, data \in Datas : Write(path, data) /\ Bounded
    \/ \E path \in Paths : Read(path) /\ Bounded
    \/ \E path \in Paths : Ls(path) /\ Bounded
    \/ \E path \in Paths : Rm(path) /\ Bounded

Spec == Init /\ [][Next]_vars

\* the same calls, for the claims about read and ls
SpecQueries == Init /\ [][Next]_vars

-----------------------------------------------------------------------------
(* Bulk-load workload, after tests/test_dir_scaling.py: a loader touches   *)
(* the names of one directory in ascending or in descending order, then    *)
(* any calls are made on them.                                             *)

Big == <<98, 105, 103>>     \* "big"

\* the path of the k-th name of the directory
BigPath(k) == Abs(<<Big, Name(k)>>)

\* the name the loader touches next
NextLoad == IF loaded.dir = "asc" THEN loaded.n + 1 ELSE LoadCount - loaded.n

\* vfs.touch(f"/big/{name}")
Load ==
    /\ steps = 0
    /\ loaded.n < LoadCount
    /\ Touch(BigPath(NextLoad))
    /\ loaded' = [loaded EXCEPT !.n = @ + 1]
    /\ UNCHANGED steps

ScalePaths == {BigPath(k) : k \in 1..LoadCount} \cup {<<Slash>>, Abs(<<Big>>)}

\* empty, not UTF-8, and a str that encode() turns into two bytes
ScaleDatas == {Bytes(<<>>), Bytes(<<255>>), Str(<<233>>)}

\* the workload's bound on the calls made after the load
Counted == steps < MaxSteps /\ steps' = steps + 1 /\ UNCHANGED loaded

ScaleInit ==
    /\ VfsInit
    /\ loaded \in {[dir |-> d, n |-> 0] : d \in {"asc", "desc"}}
    /\ steps = 0
    /\ IndexIdle

ScaleNext ==
    \/ Load
    \/ \E path \in ScalePaths : Mkdir(path) /\ Counted
    \/ \E path \in ScalePaths : Touch(path) /\ Counted
    \/ \E path \in ScalePaths, data \in ScaleDatas : Write(path, data) /\ Counted
    \/ \E path \in ScalePaths : Read(path) /\ Counted
    \/ \E path \in ScalePaths : Ls(path) /\ Counted
    \/ \E path \in ScalePaths : Rm(path) /\ Counted

SpecScale == ScaleInit /\ [][ScaleNext]_vars

-----------------------------------------------------------------------------
(* Order workload: a stand-alone BTree of any configured order takes any   *)
(* sequence of inserts and deletes, a key already stored included.         *)

Orders == 3..MaxOrder

RawKeys == {Name(n) : n \in 1..NumRawKeys}

OrderInit ==
    /\ index \in {BTree(order) : order \in Orders}
    /\ count = 0
    /\ ever = {}
    /\ live = {}
    /\ promoted = {}
    /\ distinct = TRUE
    /\ dels = 0
    /\ VfsInit
    /\ LoadIdle

\* tree.insert(Name(n), n), whether the key is stored or not
RawInsert(n) ==
    /\ count < MaxRawInserts
    /\ index' = Insert(index, Name(n), n).t
    /\ count' = count + 1
    /\ UNCHANGED <<ever, live, promoted, distinct, dels, vfsVars, loadVars, clock,
                   disk>>

\* tree.delete(key)
RawDelete(key) ==
    /\ dels < MaxDeletes
    /\ index' = Delete(index, key).t
    /\ dels' = IF Delete(index, key).res = "ok" THEN dels + 1 ELSE dels
    /\ UNCHANGED <<count, ever, live, promoted, distinct, vfsVars, loadVars,
                   clock, disk>>

OrderNext ==
    \/ \E n \in 1..NumRawKeys : RawInsert(n)
    \/ \E key \in RawKeys : RawDelete(key)

SpecOrder == OrderInit /\ [][OrderNext]_vars

-----------------------------------------------------------------------------
(* fs/cli.py: one-shot invocations, the current directory being "/" *)

Quote == 39
DoubleQuote == 34

\* _resolve(path): str(PurePosixPath(path)), or str(PurePosixPath(cwd) / path)
Resolve(path) == IF Parts(path) = <<>> THEN <<Slash>> ELSE Abs(Parts(path))

\* _cmd_write: data[1:-1] if the data is in a pair of quotes
Unquote(data) ==
    IF /\ Len(data) >= 2
       /\ data[1] = data[Len(data)]
       /\ data[1] \in {Quote, DoubleQuote}
    THEN SubSeq(data, 2, Len(data) - 1)
    ELSE data

\* bytes.decode(): UTF-8, for code points below 2048: [ok, v]
RECURSIVE Utf8Decode(_)
Utf8Decoded(head, rest) ==
    IF rest.ok THEN [ok |-> TRUE, v |-> head \o rest.v] ELSE rest
Utf8Decode(b) ==
    IF b = <<>> THEN [ok |-> TRUE, v |-> <<>>]
    ELSE IF b[1] < 128 THEN Utf8Decoded(<<b[1]>>, Utf8Decode(Tail(b)))
    ELSE IF /\ b[1] >= 194 /\ b[1] < 224
            /\ Len(b) >= 2 /\ b[2] >= 128 /\ b[2] < 192
    THEN Utf8Decoded(<<(b[1] - 192) * 64 + (b[2] - 128)>>,
                     Utf8Decode(Tail(Tail(b))))
    ELSE [ok |-> FALSE, v |-> <<>>]

\* _cmd_read: print(out.decode()), or print(out) on UnicodeDecodeError
CmdReadPrinted(out, dec) == IF dec.ok THEN Str(dec.v) ELSE Bytes(out)
CmdRead(r) ==
    IF r.res = "ok" THEN Return(r.s, CmdReadPrinted(r.out, Utf8Decode(r.out)))
    ELSE r

\* args.func(args) on the namespace v: [s, res, out]
CliCommand(v, cmd, path, data) ==
    IF cmd = "mkdir" THEN DoMkdir(v, Resolve(path))
    ELSE IF cmd = "touch" THEN DoTouch(v, Resolve(path))
    ELSE IF cmd = "write" THEN DoWrite(v, Resolve(path), Str(Unquote(data)))
    ELSE IF cmd = "read" THEN CmdRead(DoRead(v, Resolve(path)))
    ELSE IF cmd = "ls" THEN DoLs(v, Resolve(path))
    ELSE DoRm(v, Resolve(path))

\* main after args.func(args): sys.exit(1) on FSException (any other
\* exception ends the process as well), else persist.save: [file, res, out]
CliRan(file, r) ==
    [file |-> IF r.res = "ok" THEN PersistSave(r.s) ELSE file,
     res |-> r.res, out |-> r.out]

\* main(argv): vfs = persist.load(args.state); args.func(args); save
CliMain(file, cmd, path, data) ==
    CliRan(file, CliCommand(PersistLoad(file), cmd, path, data))

-----------------------------------------------------------------------------
(* CLI workload: every command line is given to a one-shot invocation on  *)
(* the snapshot file and to one namespace kept in memory (as the REPL      *)
(* keeps it, preserve_state = True).                                       *)

Commands == {"mkdir", "touch", "write", "read", "ls", "rm"}

\* "/a", "/ab", "/a/ab", "a" and ""
CliPaths ==
    {Abs(<<Name(1)>>), Abs(<<Name(2)>>), Abs(<<Name(1), Name(2)>>), Name(1),
     <<>>}

\* "h" in quotes and e-acute
CliDatas == {<<DoubleQuote, 104, DoubleQuote>>, <<233>>}

\* the data of a command line that takes none
NoArg == <<>>

\* the command line given to the namespace kept in memory
Ran(cmd, path, data, r) ==
    /\ table' = r.s.table
    /\ next_id' = r.s.next_id
    /\ last' = IF r.s = Cur THEN last
               ELSE [op |-> cmd, path |-> path, data |-> data, res |-> r.res]
    /\ UNCHANGED <<indexVars, clock>>

\* python -m fs.cli -s state cmd path [data]
Invoke(cmd, path, data) ==
    /\ disk' = CliMain(disk, cmd, path, data).file
    /\ disk'.exists => disk'.next_id <= MaxIds
    /\ Ran(cmd, path, Str(data), CliCommand(Cur, cmd, path, data))
    /\ Bounded

CliNext ==
    \/ \E cmd \in Commands \ {"write"}, path \in CliPaths :
            Invoke(cmd, path, NoArg)
    \/ \E path \in CliPaths, data \in CliDatas : Invoke("write", path, data)

SpecCli == Init /\ [][CliNext]_vars

-----------------------------------------------------------------------------
(* Metadata workload: time passes between the calls made on two names of   *)
(* the root, so that the timestamps of Meta tell the calls apart.          *)

\* time passes between two calls
Tick ==
    /\ clock < MaxClock
    /\ clock' = clock + 1
    /\ UNCHANGED <<vfsVars, loadVars, indexVars, disk>>

MetaPaths == {Abs(<<Name(n)>>) : n \in 1..NumNames}

\* empty, one byte, and a str that encode() turns into two bytes
MetaDatas == {Bytes(<<>>), Bytes(<<255>>), Str(<<233>>)}

MetaNext ==
    \/ Tick
    \/ \E path \in MetaPaths : Mkdir(path) /\ Bounded
    \/ \E path \in MetaPaths : Touch(path) /\ Bounded
    \/ \E path \in MetaPaths, data \in MetaDatas : Write(path, data) /\ Bounded
    \/ \E path \in MetaPaths : Read(path) /\ Bounded
    \/ \E path \in MetaPaths : Ls(path) /\ Bounded
    \/ \E path \in MetaPaths : Rm(path) /\ Bounded

SpecMeta == Init /\ [][MetaNext]_vars

-----------------------------------------------------------------------------
(* Claims about the ordered index *)

SeqToSet(s) == {s[i] : i \in 1..Len(s)}

StrictlyIncreasing(s) == \A i \in 1..(Len(s) - 1) : StrLess(s[i], s[i + 1])

LiveKeys == {kv[1] : kv \in live}

\* C3: after inserts of pairwise distinct keys (and no delete), iterate()
\* yields exactly the inserted keys, each once, in strictly increasing order.
\* The code yields a promoted pivot twice: from the left leaf that keeps it
\* and from the parent it was promoted into.
C3_IterYieldsEachInsertedKeyOnce ==
    (distinct /\ dels = 0) =>
        /\ StrictlyIncreasing(Iter(index))
        /\ SeqToSet(Iter(index)) = ever
        /\ Len(Iter(index)) = Cardinality(ever)

\* C5: with pairwise distinct inserts (and optional deletes), get(k) returns
\* the value inserted with k for every present key that was never promoted
\* as a pivot, and raises KeyError for every key never inserted or deleted;
\* so the only present keys get cannot find are promoted pivots.
C5_GetFindsAllButPromotedPivots ==
    distinct =>
        \A k \in Keys :
            LET g == Get(index, k)
            IN  /\ (k \in LiveKeys /\ k \notin promoted) =>
                        (g.res = "ok" /\ <<k, g.val>> \in live)
                /\ k \notin LiveKeys => g.res = "KeyError"
                /\ (k \in LiveKeys /\ g.res # "ok") =>
                        (k \in promoted /\ g.res = "KeyError")

\* the tree has three levels: an internal node has been split
ThreeLevels == ~index.root.leaf /\ ~index.root.kids[1].leaf

\* C5 witness: in a tree of three levels a present key that was promoted as
\* a pivot cannot be found, a present key is found with its value, and a
\* key has been deleted
C5_Witness ==
    /\ distinct
    /\ dels = 1
    /\ ThreeLevels
    /\ \E k \in promoted : k \in LiveKeys /\ Get(index, k).res = "KeyError"
    /\ \E kv \in live : Get(index, kv[1]) = [res |-> "ok", val |-> kv[2]]
    /\ \E k \in ever \ LiveKeys : Get(index, k).res = "KeyError"

-----------------------------------------------------------------------------
(* Helpers of the claims about the facade *)

\* basename(p): the final component, "" for the root
Basename(path) ==
    IF Parts(path) = <<>> THEN <<>> ELSE Parts(path)[Len(Parts(path))]

\* parent_of(p)
ParentOf(path) ==
    IF Len(Parts(path)) <= 1 THEN <<Slash>>
    ELSE Abs(ListPrefix(Parts(path), Len(Parts(path)) - 1))

\* the path of the first n components
PrefixPath(parts, n) == IF n = 0 THEN <<Slash>> ELSE Abs(ListPrefix(parts, n))

\* the keys of the leaves of a subtree: the entries of the index
RECURSIVE LeafKeys(_), LeafKeysFrom(_, _)
LeafKeys(node) == IF node.leaf THEN node.keys ELSE LeafKeysFrom(node, 1)
LeafKeysFrom(node, i) ==
    IF i > Len(node.kids) THEN <<>>
    ELSE LeafKeys(node.kids[i]) \o LeafKeysFrom(node, i + 1)

NoDuplicates(s) == \A i, j \in 1..Len(s) : i < j => s[i] # s[j]

\* how many leading components of segs name an entry, looked up from
\* directory to directory without creating anything: [n, id]
RECURSIVE Resolved(_, _, _)
ResolvedGot(s, cur_id, segs, g) ==
    IF g.res # "ok" THEN [n |-> 0, id |-> cur_id]
    ELSE [n |-> 1 + Resolved(s, g.val, Tail(segs)).n,
          id |-> Resolved(s, g.val, Tail(segs)).id]
Resolved(s, cur_id, segs) ==
    IF segs = <<>> \/ ~s.table[cur_id].is_dir THEN [n |-> 0, id |-> cur_id]
    ELSE ResolvedGot(s, cur_id, segs, Get(s.table[cur_id].children, segs[1]))

\* the names the loader has touched so far
LoadedNames ==
    IF loaded.dir = "asc" THEN 1..loaded.n
    ELSE (LoadCount - loaded.n + 1)..LoadCount

\* the directory the loader fills has been split at least once
BigIsSplit == loaded.n >= DefaultOrder

-----------------------------------------------------------------------------
(* Claims about the facade *)

\* write(p, data) followed immediately by read(p) returns data
WriteThenRead(w, path, data) ==
    /\ w.res = "ok"
    /\ DoRead(w.s, path) = Return(w.s, ToBytes(data))

\* the parent of p resolves to a Directory and the final name is absent or
\* names a File
WritableAt(l) ==
    \/ l.res = "KeyError"
    \/ l.res = "ok" /\ ~TableGet(l.s, l.g.val).is_dir

C6_SecondCreateFailsAlreadyExists ==
    (last.op \in {"mkdir", "touch"} /\ last.res = "ok") =>
        /\ DoMkdir(Cur, last.path) = Raise(Cur, "FileExists")
        /\ DoTouch(Cur, last.path) = Raise(Cur, "FileExists")

\* C6 witness: a mkdir has succeeded in a directory whose index has been
\* split
C6_Witness ==
    /\ last.op = "mkdir"
    /\ last.res = "ok"
    /\ ParentOf(last.path) = Abs(<<Big>>)
    /\ BigIsSplit

\* ls(parent_of(p)) returns a list that contains basename(p)
ListsBasename(r, path) ==
    /\ r.res = "ok"
    /\ \E i \in 1..Len(r.out) : r.out[i] = Basename(path)

\* C7: for every path p whose final name is non-empty and absent from its
\* parent, a successful mkdir(p) followed immediately by ls(parent_of(p))
\* returns a list that contains basename(p).
C7_MkdirThenLsListsName ==
    (last.op = "mkdir" /\ last.res = "ok" /\ Basename(last.path) # <<>>) =>
        ListsBasename(DoLs(Cur, ParentOf(last.path)), last.path)

\* C7 witness: the mkdir has added a name to a directory whose index has
\* been split, and a name is listed twice there
C7_Witness ==
    /\ last.op = "mkdir"
    /\ last.res = "ok"
    /\ ParentOf(last.path) = Abs(<<Big>>)
    /\ BigIsSplit
    /\ Len(DoLs(Cur, Abs(<<Big>>)).out) > loaded.n + 1

\* the name is not among the entries of the directory the path resolves in
NoEntry(l) ==
    /\ l.res \in {"ok", "KeyError"}
    /\ \A i \in 1..Len(DirIterNames(l.parent)) :
            DirIterNames(l.parent)[i] # l.name

\* C8: if rm(p) succeeds, an immediately following read(p) fails with
\* FileNotFound (NotFound); rm(p) and read(p) of a name that is no entry of
\* its parent (never created, or removed) fail with FileNotFound.
C8_RemovedOrAbsentIsNotFound ==
    /\ (last.op = "rm" /\ last.res = "ok") =>
            DoRead(Cur, last.path) = Raise(Cur, "FileNotFound")
    /\ \A path \in ScalePaths :
            NoEntry(Lookup(Cur, path)) =>
                /\ DoRead(Cur, path).res = "FileNotFound"
                /\ DoRm(Cur, path).res = "FileNotFound"

\* C8 witness: rm has removed a file from a directory whose index has been
\* split, and another name has never been created there
C8_Witness ==
    /\ last.op = "rm"
    /\ last.res = "ok"
    /\ ParentOf(last.path) = Abs(<<Big>>)
    /\ BigIsSplit
    /\ loaded.n < LoadCount

\* after a creating call on a path of which the first k components existed:
\* one identity per new component, every component is listed in the
\* directory before it, and a new directory holds the next component only
CreatedAlong(r, parts, k) ==
    r.res = "ok" =>
        /\ r.s.next_id = next_id + (Len(parts) - k)
        /\ \A i \in 1..Len(parts) :
              /\ ListsBasename(DoLs(r.s, PrefixPath(parts, i - 1)),
                               PrefixPath(parts, i))
              /\ i > k + 1 =>
                    DoLs(r.s, PrefixPath(parts, i - 1)).out = <<parts[i]>>

\* C9: a creating operation (touch, mkdir, write) on a path whose
\* intermediate components are absent creates every missing intermediate
\* component as an empty Directory before it creates the final object, and
\* allocates exactly one identity per new component (on a fresh namespace
\* touch("/a/ab/c") makes ls("/") = ["a"], ls("/a") = ["ab"] and
\* ls("/a/ab") = ["c"]).
C9_CreateMakesIntermediates ==
    \A path \in Paths :
        Parts(path) # <<>> =>
            /\ CreatedAlong(DoTouch(Cur, path), Parts(path),
                            Resolved(Cur, RootId, Parts(path)).n)
            /\ CreatedAlong(DoMkdir(Cur, path), Parts(path),
                            Resolved(Cur, RootId, Parts(path)).n)
            /\ \A data \in Datas :
                  CreatedAlong(DoWrite(Cur, path, data), Parts(path),
                               Resolved(Cur, RootId, Parts(path)).n)

\* C9 witness: touch("/a/ab/c") on the fresh namespace
C9_Witness ==
    /\ last = [op |-> "touch", path |-> Abs(<<Name(1), Name(2), Name(3)>>),
               data |-> NoData, res |-> "ok"]
    /\ next_id = 4
    /\ DoLs(Cur, <<Slash>>).out = <<Name(1)>>
    /\ DoLs(Cur, Abs(<<Name(1)>>)).out = <<Name(2)>>
    /\ DoLs(Cur, Abs(<<Name(1), Name(2)>>)).out = <<Name(3)>>

\* after a call on a path of which the first k of the intermediate
\* components existed and the rest could be created: the call fails, and it
\* leaves every intermediate component a Directory, one identity each
ResolvedAlong(r, inter, k, exc) ==
    /\ r.res = exc
    /\ r.s.next_id = next_id + (Len(inter) - k)
    /\ \A i \in 1..Len(inter) : DoLs(r.s, PrefixPath(inter, i)).res = "ok"
    /\ \A i \in (k + 1)..Len(inter) :
          /\ Resolved(Cur, RootId, ListPrefix(inter, i)).n < i
          /\ Resolved(r.s, RootId, ListPrefix(inter, i)).n = i

\* some intermediate component of the path is absent, and the components
\* before it are directories
IntermediatesAbsent(inter, rs) ==
    /\ rs.n < Len(inter)
    /\ TableGet(Cur, rs.id).is_dir

\* the components of the path before the final one
Intermediates(path) == ListPrefix(Parts(path), Len(Parts(path)) - 1)

SameDirectories(s) ==
    /\ s.next_id = next_id
    /\ \A id \in 0..(next_id - 1) : table[id].is_dir => s.table[id] = table[id]

\* the write overwrote in place: no identity, no index entry, and the file
\* reads as the data
OverwroteInPlace(w, path, data) ==
    /\ w.res = "ok"
    /\ SameDirectories(w.s)
    /\ DoRead(w.s, path) = Return(w.s, ToBytes(data))
    /\ DoLs(w.s, ParentOf(path)).out = DoLs(Cur, ParentOf(path)).out
    /\ DoLs(w.s, ParentOf(path)).res = DoLs(Cur, ParentOf(path)).res

\* the path names a File
NamesFile(l) == l.res = "ok" /\ ~TableGet(l.s, l.g.val).is_dir

-----------------------------------------------------------------------------
(* Claims about the failures of the facade *)

\* success, and the exception classes that stand for the kinds InvalidPath
\* (FSException), AlreadyExists, NotFound and NotADirectory; the facade has
\* no class for InvalidIdentity
Taxonomy == {"ok", "FSException", "FileExists", "FileNotFound", "NotDirectory"}

\* C12: every facade operation, on any path, returns or fails with one of
\* the kinds of the taxonomy; no other failure escapes to the caller.  The
\* code lets the KeyError of ls's lookup, the AttributeError of ls under a
\* File and the IndexError of the index escape.
C12_OnlyTaxonomyFailuresEscape ==
    \A path \in Paths :
        /\ DoMkdir(Cur, path).res \in Taxonomy
        /\ DoTouch(Cur, path).res \in Taxonomy
        /\ \A data \in Datas : DoWrite(Cur, path, data).res \in Taxonomy
        /\ DoRead(Cur, path).res \in Taxonomy
        /\ DoLs(Cur, path).res \in Taxonomy
        /\ DoRm(Cur, path).res \in Taxonomy

\* the final component is absent from its parent directory
FinalAbsent(l) == l.res = "KeyError"

\* C13: ls(p) of a path other than "/" whose final component is absent from
\* its parent fails with FileNotFound (NotFound), as read(p) does, in every
\* reachable state.  The code lets the KeyError of the lookup through.
C13_LsOfAbsentIsNotFound ==
    \A path \in Paths \ {<<Slash>>} :
        FinalAbsent(Lookup(Cur, path)) =>
            /\ DoRead(Cur, path).res = "FileNotFound"
            /\ DoLs(Cur, path).res = "FileNotFound"

\* a component of the path before the final one names a File
FileOnPath(rs) == ~TableGet(Cur, rs.id).is_dir

\* the final component names an object of the given kind
FinalIsDir(l, is_dir) ==
    l.res = "ok" /\ TableGet(l.s, l.g.val).is_dir = is_dir

\* C14: for each of mkdir, touch, write, read, ls and rm, whenever a
\* non-final component of the path names a File the operation fails with
\* NotDirectory (NotADirectory); so do write onto a Directory, read of a
\* Directory and ls of a File.  In the code ls under a File that is the
\* immediate parent raises AttributeError.
C14_FileOnPathIsNotADirectory ==
    \A path \in Paths :
        /\ (IsAbsolute(path)
              /\ FileOnPath(Resolved(Cur, RootId, Intermediates(path)))) =>
                /\ DoMkdir(Cur, path).res = "NotDirectory"
                /\ DoTouch(Cur, path).res = "NotDirectory"
                /\ \A data \in Datas :
                        DoWrite(Cur, path, data).res = "NotDirectory"
                /\ DoRead(Cur, path).res = "NotDirectory"
                /\ DoRm(Cur, path).res = "NotDirectory"
                /\ DoLs(Cur, path).res = "NotDirectory"
        /\ FinalIsDir(Lookup(Cur, path), TRUE) =>
                /\ DoRead(Cur, path).res = "NotDirectory"
                /\ \A data \in Datas :
                        DoWrite(Cur, path, data).res = "NotDirectory"
        /\ (path # <<Slash>> /\ FinalIsDir(Lookup(Cur, path), FALSE)) =>
                DoLs(Cur, path).res = "NotDirectory"

-----------------------------------------------------------------------------
(* Claims about identities and the inode table *)

\* the (name, identity) pairs of the leaves of a subtree, in order
RECURSIVE Entries(_), EntriesFrom(_, _), LeafPairs(_, _)
LeafPairs(node, i) ==
    IF i > Len(node.keys) THEN <<>>
    ELSE <<(<<node.keys[i], node.vals[i]>>)>> \o LeafPairs(node, i + 1)
Entries(node) == IF node.leaf THEN LeafPairs(node, 1) ELSE EntriesFrom(node, 1)
EntriesFrom(node, i) ==
    IF i > Len(node.kids) THEN <<>>
    ELSE Entries(node.kids[i]) \o EntriesFrom(node, i + 1)

\* the identities allocated so far
Ids == 0..(next_id - 1)

\* the entries of directory id
EntriesOf(id) == Entries(table[id].children.root)

\* no directory entry holds the identity
Detached(id) ==
    \A d \in Ids :
        table[d].is_dir =>
            \A i \in 1..Len(EntriesOf(d)) : EntriesOf(d)[i][2] # id

\* every identity allocated resolves to the inode allocated under it
TableResolves ==
    /\ DOMAIN table = Ids
    /\ \A id \in Ids : table[id].id = id
    /\ table[RootId].is_dir

\* a step allocates the next identities in order and keeps every inode
\* under its identity
AllocatesInOrder ==
    /\ next_id' >= next_id
    /\ \A id \in Ids : table'[id].id = id /\ table'[id].is_dir = table[id].is_dir
    /\ \A id \in next_id..(next_id' - 1) : table'[id].id = id

\* C15: allocate returns 0 for the first allocation (the root directory)
\* and the previous identity plus one thereafter; over any sequence of
\* facade operations, rm included, no identity is returned twice and every
\* identity returned still resolves through get to the inode it was
\* allocated for.
C15_IdentitiesMonotonicAndResolvable ==
    []TableResolves /\ [][AllocatesInOrder]_vars

\* C15 witness: after an rm the removed identity is in no directory and
\* all the identities allocated still resolve
C15_Witness ==
    /\ last.op = "rm"
    /\ last.res = "ok"
    /\ next_id = MaxIds
    /\ \E id \in Ids : id # RootId /\ Detached(id) /\ table[id].id = id

\* the entries e2 are the entries e less one pair (name, identity)
OnePairRemoved(e, e2, pair) ==
    \E i \in 1..Len(e) : e[i] = pair /\ e2 = ListDelete(e, i - 1)

\* rm changed nothing but the parent's index, which lost the one pair
DetachedOnly(l, r) ==
    /\ r.res = "ok"
    /\ r.s.next_id = next_id
    /\ DOMAIN r.s.table = Ids
    /\ \A id \in Ids : id # l.parent.id => r.s.table[id] = table[id]
    /\ OnePairRemoved(EntriesOf(l.parent.id),
                      Entries(r.s.table[l.parent.id].children.root),
                      <<l.name, l.g.val>>)

ValidName(name) ==
    /\ name # <<>>
    /\ \A i \in 1..Len(name) : name[i] # Slash

\* C17: in every state reachable by facade operations with absolute paths
\* (the path "/" passed to mkdir, touch or write included), every name
\* stored in a directory index is a non-empty string without "/".  The
\* code stores the empty name: _split_path returns "" for "/" and mkdir,
\* touch and write add it to the root.
C17_NamesNonEmptyWithoutSlash ==
    \A d \in Ids :
        table[d].is_dir =>
            \A i \in 1..Len(EntriesOf(d)) : ValidName(EntriesOf(d)[i][1])

\* the identities met following child identities from id, parents before
\* children; an identity met again below itself ends the descent
RECURSIVE Descend(_, _), DescendEntries(_, _, _)
Descend(id, above) ==
    IF id \in above \/ id \notin Ids THEN <<id>>
    ELSE IF ~table[id].is_dir THEN <<id>>
    ELSE <<id>> \o DescendEntries(EntriesOf(id), 1, above \cup {id})
DescendEntries(e, i, above) ==
    IF i > Len(e) THEN <<>>
    ELSE Descend(e[i][2], above) \o DescendEntries(e, i + 1, above)

\* every identity stored in an index resolves in the table
NoDanglingIdentity ==
    \A d \in Ids :
        table[d].is_dir =>
            \A i \in 1..Len(EntriesOf(d)) : EntriesOf(d)[i][2] \in DOMAIN table

\* an identity is stored under one entry of one directory at most
OneEntryPerIdentity ==
    \A d1, d2 \in Ids :
        table[d1].is_dir /\ table[d2].is_dir =>
            \A i \in 1..Len(EntriesOf(d1)) : \A j \in 1..Len(EntriesOf(d2)) :
                EntriesOf(d1)[i][2] = EntriesOf(d2)[j][2] => d1 = d2 /\ i = j

\* C19: in every reachable state the namespace is a closed tree rooted at
\* identity 0: every identity stored in a directory index resolves in the
\* inode table, no identity is stored under more than one directory entry,
\* and following child identities from the root never meets an identity
\* twice.
C19_NamespaceIsClosedTree ==
    /\ NoDanglingIdentity
    /\ OneEntryPerIdentity
    /\ NoDuplicates(Descend(RootId, {}))

\* a directory below the root holds an entry, after an rm has detached
\* another identity
C19_Witness ==
    /\ \E d \in Ids : d # RootId /\ ~Detached(d) /\ table[d].is_dir
                        /\ EntriesOf(d) # <<>>
    /\ \E id \in Ids : id # RootId /\ Detached(id)
    /\ Len(Descend(RootId, {})) >= 3

\* paths that do not begin with "/": "", "a", "ab", "a/ab", "./a", "a/"
RelativePaths ==
    {<<>>, Name(1), Name(2), Name(1) \o Abs(<<Name(2)>>),
     <<Dot>> \o Abs(<<Name(1)>>), Name(1) \o <<Slash>>}

\* the call fails with FSException and leaves the namespace as it was
FailsInvalidPath(r) == r = Raise(Cur, "FSException")

\* C20: an operation given a path that does not begin with "/" fails with
\* InvalidPath (FSException) before touching the namespace: no identity is
\* allocated and no directory index changes, for each of mkdir, touch,
\* write, read, ls and rm.
C20_RelativePathFailsUntouched ==
    \A path \in RelativePaths :
        /\ FailsInvalidPath(DoMkdir(Cur, path))
        /\ FailsInvalidPath(DoTouch(Cur, path))
        /\ \A data \in Datas : FailsInvalidPath(DoWrite(Cur, path, data))
        /\ FailsInvalidPath(DoRead(Cur, path))
        /\ FailsInvalidPath(DoLs(Cur, path))
        /\ FailsInvalidPath(DoRm(Cur, path))

\* "/a/ab" names a File and "/ab" does not exist: the relative paths name
\* entries and absent names of the root, and each call on them fails
C20_Witness ==
    /\ Lookup(Cur, Abs(<<Name(1), Name(2)>>)).res = "ok"
    /\ DoRead(Cur, Abs(<<Name(1), Name(2)>>)).res = "ok"
    /\ Lookup(Cur, Abs(<<Name(2)>>)).res = "KeyError"
    /\ \A path \in RelativePaths : DoRm(Cur, path).res = "FSException"

-----------------------------------------------------------------------------
(* Claims about the metadata of files *)

\* the write replaced the content of the file in place and stamped it
WroteMeta(before, after, bytes) ==
    /\ after.content = bytes
    /\ after.size = Len(bytes)
    /\ after.modified = Now
    /\ after.id = before.id
    /\ after.created = before.created

\* write(path, data) onto the File that l has found
WriteStamps(l, w, bytes) ==
    /\ w.res = "ok"
    /\ w.s.next_id = next_id
    /\ WroteMeta(TableGet(Cur, l.g.val), TableGet(w.s, l.g.val), bytes)

\* the size of every File is the byte length of its content
SizesAreLengths ==
    \A id \in Ids : ~table[id].is_dir => table[id].size = Len(table[id].content)

\* C18: write onto an existing File replaces its content, sets its size to
\* the byte length of the new content and advances its last-modified
\* timestamp to the time of the write, leaving its identity and creation
\* timestamp unchanged; in every reachable state each File's size equals
\* the byte length of its content.  The code leaves the last-modified
\* timestamp at the time of the File's creation.
C18_WriteUpdatesSizeAndModified ==
    /\ SizesAreLengths
    /\ \A path \in MetaPaths, data \in MetaDatas :
            NamesFile(Lookup(Cur, path)) =>
                WriteStamps(Lookup(Cur, path), DoWrite(Cur, path, data),
                            ToBytes(data))

-----------------------------------------------------------------------------
(* Claims about the shape of the ordered index *)

\* the nodes of the subtree
RECURSIVE NodesOf(_)
NodesOf(node) ==
    {node} \cup UNION {NodesOf(node.kids[i]) : i \in 1..Len(node.kids)}

\* the keys stored in the subtree, in leaves and in internal nodes
SubKeys(node) == UNION {SeqToSet(n.keys) : n \in NodesOf(node)}

\* the depths of the leaves of the subtree
RECURSIVE LeafDepths(_, _)
LeafDepths(node, d) ==
    IF node.leaf THEN {d}
    ELSE UNION {LeafDepths(node.kids[i], d + 1) : i \in 1..Len(node.kids)}

\* the height of the tree: the depth of its leftmost leaf
RECURSIVE Height(_)
Height(node) == IF node.leaf THEN 0 ELSE 1 + Height(node.kids[1])

\* C25: for every configured order >= 3 and every sequence of inserts and
\* deletes, no node of the index, leaf or internal, holds more than
\* order - 1 keys.  For the orders 3 and 4 the left half of a split keeps
\* mid + 1 = order - 1 keys, is full again, and takes the key inserted.
C25_NoNodeHoldsMoreThanOrderMinusOne ==
    \A n \in NodesOf(index.root) : Len(n.keys) <= index.order - 1

\* C26: in every reachable tree every internal node holds exactly one more
\* child than keys, both halves of a split internal node included.  The
\* left half of a split internal node keeps mid + 1 keys and mid + 1
\* children.
C26_InternalNodeHasOneMoreChildThanKeys ==
    \A n \in NodesOf(index.root) : ~n.leaf => Len(n.kids) = Len(n.keys) + 1

StrLeq(a, b) == a = b \/ StrLess(a, b)

\* the keys under each child lie between the node's keys on either side
WithinBounds(node) ==
    \A i \in 1..Len(node.kids) : \A k \in SubKeys(node.kids[i]) :
        /\ (i >= 2 /\ i - 1 <= Len(node.keys)) => StrLeq(node.keys[i - 1], k)
        /\ i <= Len(node.keys) => StrLeq(k, node.keys[i])

\* a key under a child equals the node's key below that child
EqualsLowerBound(node) ==
    \E i \in 2..Len(node.kids) :
        i - 1 <= Len(node.keys) /\ node.keys[i - 1] \in SubKeys(node.kids[i])

\* C27: in every tree reachable by inserting a name only when its lookup
\* fails, the keys within each node are strictly increasing, and every key
\* stored under child i of an internal node is bounded below by the node's
\* key at position i - 1 and above by its key at position i (a key may
\* equal a bound, as the retained pivot equals the upper one).
C27_KeysOrderedAndBounded ==
    \A n \in NodesOf(index.root) :
        /\ StrictlyIncreasing(n.keys)
        /\ ~n.leaf => WithinBounds(n)

\* a tree of three levels after a delete, with a key under the child to
\* the right of the same key (a promoted pivot inserted again)
C27_Witness ==
    /\ ThreeLevels
    /\ dels = 1
    /\ \E n \in NodesOf(index.root) : ~n.leaf /\ EqualsLowerBound(n)

\* all leaves are at the same depth
Balanced == Cardinality(LeafDepths(index.root, 0)) = 1

\* the height grows by one in an insert that finds the root full, and does
\* not change in any other step
HeightStep ==
    Height(index'.root) =
        Height(index.root)
        + (IF count' # count /\ Len(index.root.keys) = index.order - 1
           THEN 1 ELSE 0)

\* C28: the index stays balanced: in every tree reachable by any sequence
\* of inserts and deletes all leaves are at the same depth, and the height
\* changes only when insert finds the root holding order - 1 keys, and
\* then grows by exactly one.
C28_BalancedAndHeightGrowsAtFullRoot ==
    []Balanced /\ [][HeightStep]_vars

\* a tree of three levels from which a key has been deleted
C28_Witness == Height(index.root) = 2 /\ dels = 1 /\ count = MaxRawInserts

\* the leaves of the subtree, left to right
RECURSIVE LeavesOf(_), LeavesFrom(_, _)
LeavesOf(node) == IF node.leaf THEN <<node>> ELSE LeavesFrom(node, 1)
LeavesFrom(node, i) ==
    IF i > Len(node.kids) THEN <<>>
    ELSE LeavesOf(node.kids[i]) \o LeavesFrom(node, i + 1)

\* the subtree without what its leaves hold: the internal nodes, their
\* keys and the places of the leaves
RECURSIVE Skeleton(_)
Skeleton(node) ==
    IF node.leaf THEN [leaf |-> TRUE]
    ELSE [leaf |-> FALSE, keys |-> node.keys,
          kids |-> [i \in 1..Len(node.kids) |-> Skeleton(node.kids[i])]]

\* the leaves l2 are the leaves l but for one leaf, which lost the pair
OneLeafLostPair(l, l2, pair) ==
    /\ Len(l2) = Len(l)
    /\ \E i \in 1..Len(l) :
            /\ OnePairRemoved(LeafPairs(l[i], 1), LeafPairs(l2[i], 1), pair)
            /\ Len(l2[i].keys) = Len(l2[i].vals)
            /\ \A j \in 1..Len(l) : j # i => l2[j] = l[j]

\* delete found the key: the tree d.t is t less the pair in one leaf
DeletedOnePair(t, d, key, val) ==
    /\ d.res = "ok"
    /\ d.t.order = t.order
    /\ Skeleton(d.t.root) = Skeleton(t.root)
    /\ OneLeafLostPair(LeavesOf(t.root), LeavesOf(d.t.root), <<key, val>>)

\* delete(key) after get(key) = g
DeleteAfterGet(t, key, g) ==
    IF g.res = "ok" THEN DeletedOnePair(t, Delete(t, key), key, g.val)
    ELSE Delete(t, key) = [res |-> "KeyError", t |-> t]

\* C29: delete(k) of a key that get can find removes exactly that
\* key/value pair from the leaf holding it and changes nothing else (no
\* node merged, removed or rebalanced, internal keys and height unchanged,
\* a leaf may become empty); delete(k) of a key that get cannot find fails
\* with KeyError and leaves the tree unchanged.
C29_DeleteRemovesOnePairOrFails ==
    \A key \in RawKeys : DeleteAfterGet(index, key, Get(index, key))

-----------------------------------------------------------------------------
(* Claims about the index under the facade *)

\* the creating call completes
Completes(r) == r.res = "ok"

ListingLostOnly(before, after, name) ==
    /\ name \notin SeqToSet(after)
    /\ SeqToSet(before) \ {name} \subseteq SeqToSet(after)

\* rm(path) has returned r: the parent's listing lost the name only
RmUnlists(path, r) ==
    r.res = "ok" =>
        ListingLostOnly(DoLs(Cur, ParentOf(path)).out,
                        DoLs(r.s, ParentOf(path)).out, Basename(path))

-----------------------------------------------------------------------------
(* Claims about what the queries leave alone *)

\* every component before the final one names a Directory
IntermediatesExist(inter, rs) ==
    /\ rs.n = Len(inter)
    /\ TableGet(Cur, rs.id).is_dir

\* the call has left the inode table, every index and every content alone
LeavesNamespace(r) == r.s = Cur

\* C24: read(p) and ls(p), whether they succeed or fail, leave the inode
\* table, every directory index and every file's content unchanged
\* whenever every non-final component of p already exists as a Directory.
C24_QueriesLeaveNamespaceUnchanged ==
    \A path \in Paths :
        IntermediatesExist(Intermediates(path),
                           Resolved(Cur, RootId, Intermediates(path))) =>
            /\ LeavesNamespace(DoRead(Cur, path))
            /\ LeavesNamespace(DoLs(Cur, path))

\* "/a/ab" is a directory and "/ab" a File that is not empty: read and ls
\* succeed on the one and fail on the other, and fail on "/a/ab/c"
C24_Witness ==
    /\ DoLs(Cur, Abs(<<Name(1), Name(2)>>)).res = "ok"
    /\ DoRead(Cur, Abs(<<Name(1), Name(2)>>)).res = "NotDirectory"
    /\ DoRead(Cur, Abs(<<Name(2)>>)) = Return(Cur, <<255>>)
    /\ DoLs(Cur, Abs(<<Name(2)>>)).res = "NotDirectory"
    /\ DoRead(Cur, Abs(<<Name(1), Name(2), Name(3)>>)).res = "FileNotFound"
    /\ DoLs(Cur, Abs(<<Name(1), Name(2), Name(3)>>)).res = "KeyError"

-----------------------------------------------------------------------------
(* Claims about the one-shot invocations *)

\* the namespace the next invocation loads is the one kept in memory
Continuous == PersistLoad(disk) = Cur

\* a write the invocation w has saved is what a later read prints
ReadsBack(w, path, data) ==
    w.res = "ok" =>
        /\ CliMain(w.file, "read", path, NoArg).res = "ok"
        /\ CliMain(w.file, "read", path, NoArg).out = Str(Unquote(data))

WrittenIsRead ==
    \A path \in CliPaths, data \in CliDatas :
        ReadsBack(CliMain(disk, "write", path, data), path, data)

\* C21: invocations that share a snapshot file behave as one continuous
\* namespace: the namespace an invocation loads is the one the earlier
\* command lines would have left in a single process, and data written by
\* one invocation is what a read in a later invocation returns.
C21_InvocationsShareOneNamespace == Continuous /\ WrittenIsRead

====
